---- MODULE Spec2Model ----
(***************************************************************************)
(* DERA WFS downloader: the retrying fetcher, the layer merger, the        *)
(* category writer and the run summary of download_dera_actions.py, and    *)
(* the paginated fetcher of download_dera.py.                              *)
(*                                                                         *)
(* The remote service is the environment: every request gets one outcome,  *)
(* either an exception raised by the HTTP library or a decoded JSON body.  *)
(***************************************************************************)
EXTENDS Integers, Sequences, FiniteSets, TLC

(***************************************************************************)
(* Program constants                                                       *)
(***************************************************************************)
MAX_RETRIES == 3

BATCH_SIZE == 1000

(***************************************************************************)
(* JSON values                                                             *)
(*                                                                         *)
(* A feature is [id, properties]; properties is absent, null or a mapping  *)
(* (a function from attribute names to values).  A decoded body is         *)
(* [json, type, fkey, features]: json tells whether the document is an     *)
(* object, fkey whether its "features" member is absent, null or a list.   *)
(***************************************************************************)
NoMap == [k \in {} |-> ""]

PropsAbsent == [kind |-> "absent", map |-> NoMap]

PropsNull == [kind |-> "null", map |-> NoMap]

PropsMap(m) == [kind |-> "map", map |-> m]

Feature(i, p) == [id |-> i, properties |-> p]

FeatureCollection(fs) ==
    [json |-> "object", type |-> "FeatureCollection", fkey |-> "list", features |-> fs]

\* {"type": "FeatureCollection", "features": []}
EmptyCollection == FeatureCollection(<<>>)

\* a JSON object without a "features" member, e.g. a service exception report
ObjectWithoutFeatures ==
    [json |-> "object", type |-> "other", fkey |-> "absent", features |-> <<>>]

\* {"type": "FeatureCollection", "features": null}
ObjectNullFeatures ==
    [json |-> "object", type |-> "FeatureCollection", fkey |-> "null", features |-> <<>>]

\* a JSON document that is not an object, e.g. []
ArrayBody ==
    [json |-> "array", type |-> "other", fkey |-> "absent", features |-> <<>>]

(***************************************************************************)
(* Exceptions of one request.  requests.get raises Timeout or another      *)
(* RequestException, raise_for_status raises HTTPError, and response.json  *)
(* raises the library's JSONDecodeError, which is a RequestException.  The *)
(* repository's test of fetch_wfs makes response.json raise the standard   *)
(* library's json.JSONDecodeError, which fetch_wfs names in a clause of    *)
(* its own.                                                                *)
(***************************************************************************)
LibraryErrors == {"Timeout", "HTTPError", "ConnectionError", "RequestsJSONDecodeError"}

RequestErrors == LibraryErrors \cup {"JSONDecodeError"}

IsRequestException(e) == e \in LibraryErrors

\* the except clauses of fetch_wfs, in order; the result is the warning logged
FetchWfsHandler(e) ==
    CASE e = "Timeout" -> "WARN:Timeout"
      [] e = "HTTPError" -> "WARN:HTTP Error"
      [] IsRequestException(e) -> "WARN:Error de red"
      [] e = "JSONDecodeError" -> "WARN:JSON"
      [] OTHER -> "uncaught"

\* a request that ended in exception e, as an answer of the service
Failure(e) == [json |-> "none", type |-> e, fkey |-> "absent", features |-> <<>>]

IsFailure(answer) == answer.json = "none"

\* data.get("features", []) on a decoded object
GetFeatures(d) == IF d.fkey = "absent" THEN <<>> ELSE d.features

\* what evaluating len(data.get("features", [])) raises, "none" if nothing
CountError(d) ==
    IF d.json # "object" THEN "AttributeError"
    ELSE IF d.fkey = "null" THEN "TypeError"
    ELSE "none"

(***************************************************************************)
(* Bounded inputs                                                          *)
(***************************************************************************)
\* largest number of features in one response of the single-request service
MaxFeatures == 2

Nombre == "nombre" :> "Test"

NombreAndSource == ("nombre" :> "Test") @@ ("_source" :> "upstream")

FeaturePool ==
    {Feature(1, PropsMap(Nombre)), Feature(2, PropsAbsent),
     Feature(3, PropsMap(NombreAndSource)), Feature(4, PropsNull)}

SeqsUpTo(S, n) == UNION {[1..k -> S] : k \in 0..n}

Bodies ==
    {FeatureCollection(fs) : fs \in SeqsUpTo(FeaturePool, MaxFeatures)}
      \cup {ObjectWithoutFeatures, ObjectNullFeatures, ArrayBody}

\* a remote service: the bodies it may answer with and the ways it may fail
AnyService == [bodies |-> Bodies, errors |-> RequestErrors]

\* the service offered to merge_features: one body of each shape
MergeService ==
    [bodies |-> {EmptyCollection,
                 FeatureCollection(<<Feature(1, PropsMap(Nombre))>>),
                 FeatureCollection(<<Feature(2, PropsAbsent), Feature(3, PropsMap(NombreAndSource))>>),
                 FeatureCollection(<<Feature(4, PropsNull)>>),
                 ObjectWithoutFeatures, ArrayBody},
     errors |-> {"Timeout", "JSONDecodeError"}]

\* the service offered to a whole run
RunService ==
    [bodies |-> {EmptyCollection,
                 FeatureCollection(<<Feature(1, PropsMap(Nombre))>>),
                 FeatureCollection(<<Feature(4, PropsNull)>>),
                 ArrayBody},
     errors |-> {"Timeout"}]

VARIABLES
    service,    \* the remote service of this behaviour: [bodies, errors]
    fpc,        \* fetch_wfs: "idle", "attempt", "returned", "raised"
    layer,      \* fetch_wfs: the layer argument
    attempt,    \* fetch_wfs: the loop variable
    data,       \* fetch_wfs: the value returned
    requests,   \* number of requests.get calls of the current fetch_wfs call
    sleeps,     \* number of time.sleep(RETRY_DELAY) calls of the current call
    events,     \* log events of the current fetch_wfs call, in order
    outcomes,   \* what the service answered to each request of the current call
    run_requests \* number of requests.get calls since the behaviour began

fetchVars == <<service, fpc, layer, attempt, data, requests, sleeps, events, outcomes,
               run_requests>>

VARIABLES
    mpc,          \* merge_features: "idle", "loop", "fetching", "returned", "raised"
    layers,       \* merge_features: the list of (url, layer, desc) descriptors
    li,           \* merge_features: position of the for loop in layers
    all_features, \* merge_features: the accumulated features
    merged,       \* merge_features: the value returned
    fetched       \* per fetch_wfs call of this merge: the value returned and the
                  \* answers the service gave, in order

mergeVars == <<mpc, layers, li, all_features, merged, fetched>>

VARIABLES
    pc,        \* main: "loop", "merging", "summary", "exit", "exited", "raised"
    ci,        \* main: position of the for loop in WFS_LAYERS
    stats,     \* main: the dictionary category -> count, in insertion order
    files,     \* OUTPUT_DIR: file name -> the document it holds, <<>> if none
    written,   \* the categories save_geojson has written in this run, in order
    metadata,  \* METADATA_FILE: the document it holds, <<>> if none
    exitcode,  \* the argument of sys.exit, -1 before it is called
    saves      \* every call that opened a file of OUTPUT_DIR for writing, in
               \* order: [file, doc, outcome]

mainVars == <<pc, ci, stats, files, written, metadata, exitcode, saves>>

VARIABLES
    remote,        \* the layer behind the paginated service: [total, endless]
    ppc,           \* fetch_wfs_features: "idle", "loop", "returned", "raised"
    start_index,   \* fetch_wfs_features: the running offset
    pf_features,   \* fetch_wfs_features: its all_features list
    total_features, \* fetch_wfs_features: the total of the first page, [set, known, value]
    page_requests, \* the (startIndex, count) of every request issued, in order
    pf_events,     \* what fetch_wfs_features printed, in order
    answers,       \* what the service answered to each request, in order
    result         \* fetch_wfs_features: the value returned

pagedVars == <<remote, ppc, start_index, pf_features, total_features, page_requests,
               pf_events, answers, result>>

VARIABLES
    dpc,        \* download_dera.py: "idle", "main", "layer", "fetching", "returned",
                \* "raised", "exited"
    d_entry,    \* what was called: "none", "main", "download_layer"
    d_arg,      \* main: the value of --layer
    d_keys,     \* main: the layer keys to download, in order
    d_ki,       \* main: position in d_keys
    d_layer,    \* download_layer: the layer_key argument
    d_si,       \* download_layer: position of the for loop in config["urls"]
    d_features, \* download_layer: its all_features list
    d_results,  \* main: the results dictionary, in insertion order
    d_ret,      \* download_layer called on its own: "none", or the value returned
    d_exit      \* main: the exit status of the process, -1 while it runs

downloadVars == <<dpc, d_entry, d_arg, d_keys, d_ki, d_layer, d_si, d_features,
                  d_results, d_ret, d_exit>>

vars == <<fetchVars, mergeVars, mainVars, pagedVars, downloadVars>>

(***************************************************************************)
(* fetch_wfs                                                               *)
(***************************************************************************)
\* entry of fetch_wfs(url, layer): the first iteration of the for loop
FetchCall(l) ==
    /\ fpc' = "attempt"
    /\ layer' = l
    /\ attempt' = 1
    /\ data' = EmptyCollection
    /\ requests' = 0
    /\ sleeps' = 0
    /\ events' = <<>>
    /\ outcomes' = <<>>
    /\ UNCHANGED <<service, run_requests>>

\* a response without features taken for a failure and answered with the
\* empty collection of the last line
FetchSuccess_EmptyIsFailure(body) ==
    /\ fpc = "attempt"
    /\ CountError(body) = "none"
    /\ requests' = requests + 1
    /\ outcomes' = Append(outcomes, body)
    /\ run_requests' = run_requests + 1
    /\ events' = events \o <<"INFO:Descargando", "OK:features">>
    /\ data' = IF GetFeatures(body) = <<>> THEN EmptyCollection ELSE body
    /\ fpc' = "returned"
    /\ UNCHANGED <<service, layer, attempt, sleeps>>
    /\ UNCHANGED <<mergeVars, mainVars, pagedVars, downloadVars>>

\* the request succeeds and the body decodes: log the count, return the data
FetchSuccess(body) ==
    /\ fpc = "attempt"
    /\ CountError(body) = "none"
    /\ requests' = requests + 1
    /\ outcomes' = Append(outcomes, body)
    /\ run_requests' = run_requests + 1
    /\ events' = events \o <<"INFO:Descargando", "OK:features">>
    /\ data' = body
    /\ fpc' = "returned"
    /\ UNCHANGED <<service, layer, attempt, sleeps>>
    /\ UNCHANGED <<mergeVars, mainVars, pagedVars, downloadVars>>

\* the body decodes but len(data.get("features", [])) raises: no except
\* clause matches AttributeError or TypeError
FetchBodyRaises(body) ==
    /\ fpc = "attempt"
    /\ CountError(body) # "none"
    /\ FetchWfsHandler(CountError(body)) = "uncaught"
    /\ requests' = requests + 1
    /\ outcomes' = Append(outcomes, body)
    /\ run_requests' = run_requests + 1
    /\ events' = Append(events, "INFO:Descargando")
    /\ fpc' = "raised"
    /\ UNCHANGED <<service, layer, attempt, data, sleeps>>
    /\ UNCHANGED <<mergeVars, mainVars, pagedVars, downloadVars>>

\* the loop bound off by one: range(1, MAX_RETRIES + 2)
InRetryRange_OneMore(a) == a \in 1..(MAX_RETRIES + 1)

\* for attempt in range(1, MAX_RETRIES + 1)
InRetryRange(a) == a \in 1..MAX_RETRIES

\* the pause taken after the last attempt too: attempt <= MAX_RETRIES
PausesAfter_Always(a) == a <= MAX_RETRIES

\* if attempt < MAX_RETRIES: log and time.sleep(RETRY_DELAY)
PausesAfter(a) == a < MAX_RETRIES

\* the failure swallowed without its warning: except ...: pass
FailureEvents_Silent(e, a) ==
    <<"INFO:Descargando">> \o (IF PausesAfter(a) THEN <<"INFO:Reintentando">> ELSE <<>>)

\* the events of one failed iteration: the attempt, the warning, the pause
FailureEvents(e, a) ==
    <<"INFO:Descargando", FetchWfsHandler(e)>>
        \o (IF PausesAfter(a) THEN <<"INFO:Reintentando">> ELSE <<>>)

\* a caught failure with iterations left: warn, pause, next iteration
FetchRetry(e) ==
    /\ fpc = "attempt"
    /\ FetchWfsHandler(e) # "uncaught"
    /\ InRetryRange(attempt + 1)
    /\ requests' = requests + 1
    /\ outcomes' = Append(outcomes, Failure(e))
    /\ run_requests' = run_requests + 1
    /\ events' = events \o FailureEvents(e, attempt)
    /\ sleeps' = IF PausesAfter(attempt) THEN sleeps + 1 ELSE sleeps
    /\ attempt' = attempt + 1
    /\ UNCHANGED <<service, fpc, layer, data>>
    /\ UNCHANGED <<mergeVars, mainVars, pagedVars, downloadVars>>

\* a caught failure in the last iteration: warn, leave the loop, log the
\* error, return the empty collection
FetchAbandon(e) ==
    /\ fpc = "attempt"
    /\ FetchWfsHandler(e) # "uncaught"
    /\ ~InRetryRange(attempt + 1)
    /\ requests' = requests + 1
    /\ outcomes' = Append(outcomes, Failure(e))
    /\ run_requests' = run_requests + 1
    /\ events' = events \o FailureEvents(e, attempt) \o <<"ERROR:Fallo descarga">>
    /\ sleeps' = IF PausesAfter(attempt) THEN sleeps + 1 ELSE sleeps
    /\ data' = EmptyCollection
    /\ fpc' = "returned"
    /\ UNCHANGED <<service, layer, attempt>>
    /\ UNCHANGED <<mergeVars, mainVars, pagedVars, downloadVars>>

FetchStep ==
    \/ \E body \in service.bodies : FetchSuccess(body)
    \/ \E body \in service.bodies : FetchBodyRaises(body)
    \/ \E e \in service.errors : FetchRetry(e)
    \/ \E e \in service.errors : FetchAbandon(e)

(***************************************************************************)
(* merge_features                                                          *)
(***************************************************************************)
Descriptor(u, l, d) == [url |-> u, layer |-> l, desc |-> d]

\* the tag set only where the record has none: setdefault("_source", desc)
TagFeature_KeepsSource(f, desc) ==
    LET m == f.properties.map
    IN [f EXCEPT !.properties =
            PropsMap([k \in DOMAIN m \cup {"_source"} |->
                          IF k \in DOMAIN m THEN m[k] ELSE desc])]

\* if "properties" not in f: f["properties"] = {}; f["properties"]["_source"] = desc
TagFeature(f, desc) ==
    LET m == f.properties.map
    IN [f EXCEPT !.properties =
            PropsMap([k \in DOMAIN m \cup {"_source"} |->
                          IF k = "_source" THEN desc ELSE m[k]])]

\* f["properties"]["_source"] = desc raises TypeError on a null properties member
TagRaises(f) == f.properties.kind = "null"

\* the features of a layer taken last to first
TagAll_Reversed(fs, desc) == [i \in 1..Len(fs) |-> TagFeature(fs[Len(fs) + 1 - i], desc)]

TagAll(fs, desc) == [i \in 1..Len(fs) |-> TagFeature(fs[i], desc)]

\* the document merge_features returns
MergedCollection(fs) ==
    [json |-> "object", type |-> "FeatureCollection", fkey |-> "list",
     features |-> fs, crs |-> "EPSG:25830"]

\* entry of merge_features(layers)
MergeCall(ls) ==
    /\ mpc' = "loop"
    /\ layers' = ls
    /\ li' = 1
    /\ all_features' = <<>>
    /\ fetched' = <<>>
    /\ UNCHANGED merged

\* for url, layer, desc in layers: data = fetch_wfs(url, layer)
MergeFetch ==
    /\ mpc = "loop"
    /\ li <= Len(layers)
    /\ FetchCall(layers[li].layer)
    /\ mpc' = "fetching"
    /\ UNCHANGED <<layers, li, all_features, merged, fetched>>
    /\ UNCHANGED <<mainVars, pagedVars, downloadVars>>

\* the loop left at the first layer that yields no features
MergeTag_StopsOnEmpty ==
    /\ mpc = "fetching"
    /\ fpc = "returned"
    /\ \A i \in 1..Len(GetFeatures(data)) : ~TagRaises(GetFeatures(data)[i])
    /\ all_features' = all_features \o TagAll(GetFeatures(data), layers[li].desc)
    /\ fetched' = Append(fetched, [layer |-> layer, data |-> data, outcomes |-> outcomes])
    /\ li' = IF GetFeatures(data) = <<>> THEN Len(layers) + 1 ELSE li + 1
    /\ mpc' = "loop"
    /\ UNCHANGED <<layers, merged>>
    /\ UNCHANGED <<fetchVars, mainVars, pagedVars, downloadVars>>

\* fetch_wfs returned: tag every feature and extend all_features
MergeTag ==
    /\ mpc = "fetching"
    /\ fpc = "returned"
    /\ \A i \in 1..Len(GetFeatures(data)) : ~TagRaises(GetFeatures(data)[i])
    /\ all_features' = all_features \o TagAll(GetFeatures(data), layers[li].desc)
    /\ fetched' = Append(fetched, [layer |-> layer, data |-> data, outcomes |-> outcomes])
    /\ li' = li + 1
    /\ mpc' = "loop"
    /\ UNCHANGED <<layers, merged>>
    /\ UNCHANGED <<fetchVars, mainVars, pagedVars, downloadVars>>

\* fetch_wfs returned a feature whose tagging raises: the error leaves merge_features
MergeTagRaises ==
    /\ mpc = "fetching"
    /\ fpc = "returned"
    /\ \E i \in 1..Len(GetFeatures(data)) : TagRaises(GetFeatures(data)[i])
    /\ fetched' = Append(fetched, [layer |-> layer, data |-> data, outcomes |-> outcomes])
    /\ mpc' = "raised"
    /\ UNCHANGED <<layers, li, all_features, merged>>
    /\ UNCHANGED <<fetchVars, mainVars, pagedVars, downloadVars>>

\* fetch_wfs raised: the error leaves merge_features
MergeFetchRaised ==
    /\ mpc = "fetching"
    /\ fpc = "raised"
    /\ mpc' = "raised"
    /\ UNCHANGED <<layers, li, all_features, merged, fetched>>
    /\ UNCHANGED <<fetchVars, mainVars, pagedVars, downloadVars>>

\* the loop is over: return the collection
MergeReturn ==
    /\ mpc = "loop"
    /\ li > Len(layers)
    /\ merged' = MergedCollection(all_features)
    /\ mpc' = "returned"
    /\ UNCHANGED <<layers, li, all_features, fetched>>
    /\ UNCHANGED <<fetchVars, mainVars, pagedVars, downloadVars>>

MergeStep ==
    \/ MergeFetch
    \/ MergeTag
    \/ MergeTagRaises
    \/ MergeFetchRaised
    \/ MergeReturn

(***************************************************************************)
(* save_geojson, update_metadata, main                                     *)
(***************************************************************************)
G12 == "DERA_g12_servicios/wfs"

G10 == "DERA_g10_infra_energetica/wfs"

\* the configuration table, in dictionary order
WFS_LAYERS ==
    << [category |-> "health",
        layers |-> << Descriptor(G12, "g12_01_CentroSalud", "CAP"),
                      Descriptor(G12, "g12_02_Hospital_CAE", "Hospitales") >>],
       [category |-> "security",
        layers |-> << Descriptor(G12, "g12_26_Policia", "Policia"),
                      Descriptor(G12, "g12_29_ParqueBomberos", "Bomberos"),
                      Descriptor(G12, "g12_34_GuardiaCivil", "Guardia Civil") >>],
       [category |-> "education",
        layers |-> << Descriptor(G12, "g12_05_CentroEducativo", "Centros Educativos") >>],
       [category |-> "municipal",
        layers |-> << Descriptor(G12, "g12_32_CentrosJuntaAndalucia", "Centros Junta"),
                      Descriptor(G12, "g12_11_Ayuntamiento", "Ayuntamientos") >>],
       [category |-> "emergency",
        layers |-> << Descriptor(G12, "g12_35_GestionEmergencias", "Centros Emergencias") >>],
       [category |-> "energy",
        layers |-> << Descriptor(G10, "g10_02_ParqueEolico", "Parques Eolicos") >>] >>

Categories == {WFS_LAYERS[i].category : i \in 1..Len(WFS_LAYERS)}

\* the count taken over the distinct records of the collection
FeatureCount_Unique(d) == Cardinality({GetFeatures(d)[i].id : i \in 1..Len(GetFeatures(d))})

\* len(data.get("features", []))
FeatureCount(d) == Len(GetFeatures(d))

FileName(category) == category \o ".geojson"

\* a category without records left out of the dictionary: if count: stats[...] = count
DictSet_SkipsZero(d, k, v) ==
    IF v = 0 THEN d ELSE Append(d, [key |-> k, value |-> v])

\* d[k] = v on an insertion-ordered dictionary
DictSet(d, k, v) ==
    IF \E i \in 1..Len(d) : d[i].key = k
    THEN [i \in 1..Len(d) |-> IF d[i].key = k THEN [key |-> k, value |-> v] ELSE d[i]]
    ELSE Append(d, [key |-> k, value |-> v])

\* sum(stats.values())
RECURSIVE SumValues(_)
SumValues(d) == IF d = <<>> THEN 0 ELSE d[1].value + SumValues(Tail(d))

\* the total taken as the number of categories: len(stats)
Metadata_CountsCategories(st) ==
    [crs |-> "EPSG:25830", layers |-> st, totalFeatures |-> Len(st)]

\* the document update_metadata writes
Metadata(st) == [crs |-> "EPSG:25830", layers |-> st, totalFeatures |-> SumValues(st)]

\* a document left by an earlier run
StaleCollection == MergedCollection(<<Feature(9, PropsMap(Nombre))>>)

StaleMetadata == Metadata(<<[key |-> "health", value |-> 1]>>)

\* a storage operation succeeds or raises OSError
StorageOutcomes == {"ok", "OSError"}

\* open(path, "w") and json.dump(data, f): the file holds data and nothing else
WriteFile_Appends(fs, name, doc) == [fs EXCEPT ![name] = fs[name] \o <<doc>>]

WriteFile(fs, name, doc) == [fs EXCEPT ![name] = <<doc>>]

\* save_geojson(data, filename): the file is written, or OSError is raised
\* before anything is written
SaveGeojson(doc, filename, outcome) ==
    /\ files' = IF outcome = "ok" THEN WriteFile(files, filename, doc) ELSE files
    /\ saves' = Append(saves, [file |-> filename, doc |-> doc, outcome |-> outcome])

\* for category, layers in WFS_LAYERS.items(): data = merge_features(layers)
MainMerge ==
    /\ pc = "loop"
    /\ ci <= Len(WFS_LAYERS)
    /\ MergeCall(WFS_LAYERS[ci].layers)
    /\ pc' = "merging"
    /\ UNCHANGED <<ci, stats, files, written, metadata, exitcode, saves>>
    /\ UNCHANGED <<fetchVars, pagedVars, downloadVars>>

\* count = save_geojson(data, f"{category}.geojson"); stats[category] = count
MainSave(outcome) ==
    /\ pc = "merging"
    /\ mpc = "returned"
    /\ outcome = "ok"
    /\ SaveGeojson(merged, FileName(WFS_LAYERS[ci].category), outcome)
    /\ written' = Append(written, WFS_LAYERS[ci].category)
    /\ stats' = DictSet(stats, WFS_LAYERS[ci].category, FeatureCount(merged))
    /\ ci' = ci + 1
    /\ pc' = "loop"
    /\ UNCHANGED <<metadata, exitcode>>
    /\ UNCHANGED <<fetchVars, mergeVars, pagedVars, downloadVars>>

\* the error of save_geojson caught and the loop continued with the next category
MainSaveRaises_Continues(outcome) ==
    /\ pc = "merging"
    /\ mpc = "returned"
    /\ outcome = "OSError"
    /\ stats' = DictSet(stats, WFS_LAYERS[ci].category, 0)
    /\ ci' = ci + 1
    /\ pc' = "loop"
    /\ UNCHANGED <<files, written, metadata, exitcode, saves>>
    /\ UNCHANGED <<fetchVars, mergeVars, pagedVars, downloadVars>>

\* save_geojson raises before anything is written: the error leaves main
MainSaveRaises(outcome) ==
    /\ pc = "merging"
    /\ mpc = "returned"
    /\ outcome = "OSError"
    /\ SaveGeojson(merged, FileName(WFS_LAYERS[ci].category), outcome)
    /\ pc' = "raised"
    /\ UNCHANGED <<ci, stats, written, metadata, exitcode>>
    /\ UNCHANGED <<fetchVars, mergeVars, pagedVars, downloadVars>>

\* merge_features raised: the error leaves main
MainMergeRaised ==
    /\ pc = "merging"
    /\ mpc = "raised"
    /\ pc' = "raised"
    /\ UNCHANGED <<ci, stats, files, written, metadata, exitcode, saves>>
    /\ UNCHANGED <<fetchVars, mergeVars, pagedVars, downloadVars>>

\* update_metadata(stats)
MainUpdateMetadata(outcome) ==
    /\ pc = "loop"
    /\ ci > Len(WFS_LAYERS)
    /\ outcome = "ok"
    /\ metadata' = <<Metadata(stats)>>
    /\ pc' = "exit"
    /\ UNCHANGED <<ci, stats, files, written, exitcode, saves>>
    /\ UNCHANGED <<fetchVars, mergeVars, pagedVars, downloadVars>>

\* update_metadata raises before anything is written: the error leaves main
MainUpdateMetadataRaises(outcome) ==
    /\ pc = "loop"
    /\ ci > Len(WFS_LAYERS)
    /\ outcome = "OSError"
    /\ pc' = "raised"
    /\ UNCHANGED <<ci, stats, files, written, metadata, exitcode, saves>>
    /\ UNCHANGED <<fetchVars, mergeVars, pagedVars, downloadVars>>

\* total = sum of the counts; sys.exit(0) if total > 0 else sys.exit(1)
ExitCode(st) == IF SumValues(st) > 0 THEN 0 ELSE 1

MainExit ==
    /\ pc = "exit"
    /\ exitcode' = ExitCode(stats)
    /\ pc' = "exited"
    /\ UNCHANGED <<ci, stats, files, written, metadata, saves>>
    /\ UNCHANGED <<fetchVars, mergeVars, pagedVars, downloadVars>>

MainStep ==
    \/ MainMerge
    \/ \E o \in StorageOutcomes : MainSave(o)
    \/ \E o \in StorageOutcomes : MainSaveRaises(o)
    \/ MainMergeRaised
    \/ \E o \in StorageOutcomes : MainUpdateMetadata(o)
    \/ \E o \in StorageOutcomes : MainUpdateMetadataRaises(o)
    \/ MainExit

(***************************************************************************)
(* fetch_wfs_features (download_dera.py)                                   *)
(*                                                                         *)
(* The layer holds records 1..total, or has no end; a request for count    *)
(* records from startIndex is answered with the records that follow that   *)
(* offset.  A record is its position in the layer.                         *)
(***************************************************************************)
Min(a, b) == IF a < b THEN a ELSE b

Max(a, b) == IF a > b THEN a ELSE b

\* number of records the layer serves for a request of count from start
ServedCount(r, start, count) ==
    IF r.endless THEN count ELSE Min(count, Max(0, r.total - start))

\* the records start+1 .. start+n
Page(start, n) == [i \in 1..n |-> start + i]

ServedPage(r, start, count) == Page(start, ServedCount(r, start, count))

\* build_wfs_url: the pagination parameters of the request
WfsRequest(start, count) == [startIndex |-> start, count |-> count]

\* except requests.exceptions.RequestException
PagedCatches(e) == IsRequestException(e)

\* the short-page test dropped: only an empty page ends the loop
IsShortPage_Never(n) == FALSE

\* if len(features) < BATCH_SIZE: break
IsShortPage(n) == n < BATCH_SIZE

NoTotal == [set |-> FALSE, known |-> FALSE, value |-> 0]

\* data.get("numberMatched", data.get("totalFeatures", "?")); a member that is
\* absent is <<>>
TotalOf(numberMatched, totalFeatures) ==
    IF numberMatched # <<>> THEN [set |-> TRUE, known |-> TRUE, value |-> numberMatched[1]]
    ELSE IF totalFeatures # <<>> THEN [set |-> TRUE, known |-> TRUE, value |-> totalFeatures[1]]
    ELSE [set |-> TRUE, known |-> FALSE, value |-> 0]

\* the document fetch_wfs_features returns
PagedCollection(fs, l) ==
    [type |-> "FeatureCollection", features |-> fs, numberMatched |-> Len(fs), source |-> l]

PagedLayer == "g12_01_CentroSalud"

\* most loop rounds of fetch_wfs_features the model follows
MaxRounds == 5

\* most full pages a layer of known size holds
MaxFullPages == 2

LayerSizes == {k * BATCH_SIZE + r : k \in 0..MaxFullPages, r \in {0, 1, BATCH_SIZE - 1}}

RemoteLayers ==
    {[total |-> t, endless |-> FALSE] : t \in LayerSizes}
        \cup {[total |-> 0, endless |-> TRUE]}

\* the total-match members of a response: absent, right or wrong
TotalMembers(r) == {<<>>, <<r.total>>, <<r.total + 7>>}

\* bodies that carry no usable features member
DegenerateBodies == {ObjectWithoutFeatures, ObjectNullFeatures}

\* the request of one loop round
PagedRequest(answer) ==
    /\ ppc = "loop"
    /\ Len(page_requests) < MaxRounds
    /\ page_requests' = Append(page_requests, WfsRequest(start_index, BATCH_SIZE))
    /\ answers' = Append(answers, answer)
    /\ UNCHANGED remote

\* the loop ended as soon as the total the service announced has been reached
PageFull_TrustsTotal(nm, tf) ==
    /\ PagedRequest("page")
    /\ ServedCount(remote, start_index, BATCH_SIZE) > 0
    /\ ~IsShortPage(ServedCount(remote, start_index, BATCH_SIZE))
    /\ pf_features' = pf_features \o ServedPage(remote, start_index, BATCH_SIZE)
    /\ total_features' = IF total_features.set THEN total_features ELSE TotalOf(nm, tf)
    /\ pf_events' = Append(pf_events, "Descargados")
    /\ IF total_features'.known /\ Len(pf_features') >= total_features'.value
       THEN /\ result' = PagedCollection(pf_features', PagedLayer)
            /\ ppc' = "returned"
            /\ UNCHANGED start_index
       ELSE /\ start_index' = start_index + BATCH_SIZE
            /\ UNCHANGED <<ppc, result>>
    /\ UNCHANGED <<fetchVars, mergeVars, mainVars, downloadVars>>

\* a full page: extend, note the total, advance the offset, pause, next round
PageFull(nm, tf) ==
    /\ PagedRequest("page")
    /\ ServedCount(remote, start_index, BATCH_SIZE) > 0
    /\ ~IsShortPage(ServedCount(remote, start_index, BATCH_SIZE))
    /\ pf_features' = pf_features \o ServedPage(remote, start_index, BATCH_SIZE)
    /\ total_features' = IF total_features.set THEN total_features ELSE TotalOf(nm, tf)
    /\ pf_events' = Append(pf_events, "Descargados")
    /\ start_index' = start_index + BATCH_SIZE
    /\ UNCHANGED <<ppc, result>>
    /\ UNCHANGED <<fetchVars, mergeVars, mainVars, downloadVars>>

\* the short-page test made before the page is added to all_features
PageShort_DropsLast(nm, tf) ==
    /\ PagedRequest("page")
    /\ ServedCount(remote, start_index, BATCH_SIZE) > 0
    /\ IsShortPage(ServedCount(remote, start_index, BATCH_SIZE))
    /\ total_features' = IF total_features.set THEN total_features ELSE TotalOf(nm, tf)
    /\ result' = PagedCollection(pf_features, PagedLayer)
    /\ ppc' = "returned"
    /\ UNCHANGED <<start_index, pf_features, pf_events>>
    /\ UNCHANGED <<fetchVars, mergeVars, mainVars, downloadVars>>

\* a page shorter than BATCH_SIZE: extend, note the total, break and return
PageShort(nm, tf) ==
    /\ PagedRequest("page")
    /\ ServedCount(remote, start_index, BATCH_SIZE) > 0
    /\ IsShortPage(ServedCount(remote, start_index, BATCH_SIZE))
    /\ pf_features' = pf_features \o ServedPage(remote, start_index, BATCH_SIZE)
    /\ total_features' = IF total_features.set THEN total_features ELSE TotalOf(nm, tf)
    /\ pf_events' = Append(pf_events, "Descargados")
    /\ result' = PagedCollection(pf_features', PagedLayer)
    /\ ppc' = "returned"
    /\ UNCHANGED start_index
    /\ UNCHANGED <<fetchVars, mergeVars, mainVars, downloadVars>>

\* if not features: break, for an empty list
PageEmpty ==
    /\ PagedRequest("page")
    /\ ServedCount(remote, start_index, BATCH_SIZE) = 0
    /\ result' = PagedCollection(pf_features, PagedLayer)
    /\ ppc' = "returned"
    /\ UNCHANGED <<start_index, pf_features, total_features, pf_events>>
    /\ UNCHANGED <<fetchVars, mergeVars, mainVars, downloadVars>>

\* if not features: break, for a body whose features member is absent or null
PageDegenerate(body) ==
    /\ PagedRequest("degenerate")
    /\ body.json = "object"
    /\ body.fkey \in {"absent", "null"}
    /\ result' = PagedCollection(pf_features, PagedLayer)
    /\ ppc' = "returned"
    /\ UNCHANGED <<start_index, pf_features, total_features, pf_events>>
    /\ UNCHANGED <<fetchVars, mergeVars, mainVars, downloadVars>>

\* the failure handler returning the empty collection, as fetch_wfs does
PageFails_DropsPages(e) ==
    /\ PagedRequest(e)
    /\ PagedCatches(e)
    /\ pf_events' = Append(pf_events, "Error")
    /\ result' = PagedCollection(<<>>, PagedLayer)
    /\ ppc' = "returned"
    /\ UNCHANGED <<start_index, pf_features, total_features>>
    /\ UNCHANGED <<fetchVars, mergeVars, mainVars, downloadVars>>

\* the request fails with a RequestException: print the error, break and return
PageFails(e) ==
    /\ PagedRequest(e)
    /\ PagedCatches(e)
    /\ pf_events' = Append(pf_events, "Error")
    /\ result' = PagedCollection(pf_features, PagedLayer)
    /\ ppc' = "returned"
    /\ UNCHANGED <<start_index, pf_features, total_features>>
    /\ UNCHANGED <<fetchVars, mergeVars, mainVars, downloadVars>>

\* data.get raises AttributeError on a body that is not an object
PageBodyRaises(body) ==
    /\ PagedRequest("array")
    /\ body.json # "object"
    /\ ppc' = "raised"
    /\ UNCHANGED <<start_index, pf_features, total_features, pf_events, result>>
    /\ UNCHANGED <<fetchVars, mergeVars, mainVars, downloadVars>>

PagedStep ==
    \/ \E nm \in TotalMembers(remote), tf \in TotalMembers(remote) : PageFull(nm, tf)
    \/ \E nm \in TotalMembers(remote), tf \in TotalMembers(remote) : PageShort(nm, tf)
    \/ PageEmpty
    \/ \E body \in DegenerateBodies : PageDegenerate(body)
    \/ \E e \in LibraryErrors : PageFails(e)
    \/ \E body \in {ArrayBody} : PageBodyRaises(body)

(***************************************************************************)
(* download_dera.py: download_layer, download_all, main                    *)
(***************************************************************************)

\* a source of WFS_CONFIG[key]["urls"]
Source(u, l, d) == [url |-> u, layer |-> l, description |-> d]

WFS_CONFIG ==
    [health |->
        [name |-> "Centros Sanitarios",
         urls |-> <<Source(G12, "DERA_g12_servicios:g12_01_CentroSalud", "Centros de Atención Primaria"),
                    Source(G12, "DERA_g12_servicios:g12_02_Hospital_CAE", "Hospitales y CAE")>>],
     security |->
        [name |-> "Instalaciones de Seguridad",
         urls |-> <<Source(G12, "DERA_g12_servicios:g12_26_Policia", "Comisarías de Policía"),
                    Source(G12, "DERA_g12_servicios:g12_29_ParqueBomberos", "Parques de Bomberos"),
                    Source(G12, "DERA_g12_servicios:g12_34_GuardiaCivil", "Guardia Civil"),
                    Source(G12, "DERA_g12_servicios:g12_35_GestionEmergencias", "Gestión Emergencias PTEAnd")>>],
     energy |->
        [name |-> "Infraestructuras Energéticas",
         urls |-> <<Source(G10, "DERA_g10_infra_energetica:g10_02_ParqueEolico", "Parques Eólicos")>>],
     education |->
        [name |-> "Centros Educativos",
         urls |-> <<Source(G12, "DERA_g12_servicios:g12_05_CentroEducativo", "Centros Educativos")>>],
     municipal |->
        [name |-> "Servicios Municipales",
         urls |-> <<Source(G12, "DERA_g12_servicios:g12_11_Ayuntamiento", "Ayuntamientos")>>]]

\* list(WFS_CONFIG.keys())
ConfigKeys == <<"health", "security", "energy", "education", "municipal">>

\* layer_key in WFS_CONFIG
IsConfigured(key) == key \in DOMAIN WFS_CONFIG

\* choices=list(WFS_CONFIG.keys()) + ["all"]
ArgChoices == DOMAIN WFS_CONFIG \cup {"all"}

\* the layers the module's documentation lists and WFS_CONFIG does not hold
UnconfiguredKeys == {"heritage", "hydraulic", "sports"}

\* the names a caller may pass as layer_key or --layer
LayerArgs == ArgChoices \cup UnconfiguredKeys

\* the layers offered to download_layer: without records or with one
DownloadRemotes == {[total |-> t, endless |-> FALSE] : t \in {0, 1}}

\* the document download_layer writes
LayerDocument(key, fs) ==
    [type |-> "FeatureCollection",
     features |-> fs,
     metadata |-> [layer |-> key,
                   name |-> WFS_CONFIG[key].name,
                   featuresCount |-> Len(fs),
                   sources |-> [i \in 1..Len(WFS_CONFIG[key].urls) |->
                                    WFS_CONFIG[key].urls[i].layer]]]

\* an unknown key taken for a layer without sources: an empty file is written
\* and True returned
DownloadLayerUnknown_Proceeds(key) ==
    /\ dpc = "idle"
    /\ ~IsConfigured(key)
    /\ d_entry' = "download_layer"
    /\ d_layer' = key
    /\ files' = WriteFile(files, FileName(key), EmptyCollection)
    /\ saves' = Append(saves, [file |-> FileName(key), doc |-> EmptyCollection, outcome |-> "ok"])
    /\ d_ret' = "True"
    /\ dpc' = "returned"
    /\ UNCHANGED <<d_arg, d_keys, d_ki, d_si, d_features, d_results, d_exit>>
    /\ UNCHANGED <<pc, ci, stats, written, metadata, exitcode>>
    /\ UNCHANGED <<fetchVars, mergeVars, pagedVars>>

\* if layer_key not in WFS_CONFIG: print and return False
DownloadLayerUnknown(key) ==
    /\ dpc \in {"idle", "main"}
    /\ ~IsConfigured(key)
    /\ \/ dpc = "idle" /\ d_entry' = "download_layer"
       \/ dpc = "main" /\ d_ki <= Len(d_keys) /\ key = d_keys[d_ki] /\ d_entry' = d_entry
    /\ d_layer' = key
    /\ IF d_entry' = "main"
       THEN /\ d_results' = DictSet(d_results, key, "False")
            /\ d_ki' = d_ki + 1
            /\ dpc' = "main"
            /\ UNCHANGED d_ret
       ELSE /\ d_ret' = "False"
            /\ dpc' = "returned"
            /\ UNCHANGED <<d_ki, d_results>>
    /\ UNCHANGED <<d_arg, d_keys, d_si, d_features, d_exit>>
    /\ UNCHANGED <<fetchVars, mergeVars, mainVars, pagedVars>>

\* config = WFS_CONFIG[layer_key]; all_features = []
DownloadLayerBegin(key) ==
    /\ dpc \in {"idle", "main"}
    /\ IsConfigured(key)
    /\ \/ dpc = "idle" /\ d_entry' = "download_layer"
       \/ dpc = "main" /\ d_ki <= Len(d_keys) /\ key = d_keys[d_ki] /\ d_entry' = d_entry
    /\ d_layer' = key
    /\ d_si' = 1
    /\ d_features' = <<>>
    /\ dpc' = "layer"
    /\ UNCHANGED <<d_arg, d_keys, d_ki, d_results, d_ret, d_exit>>
    /\ UNCHANGED <<fetchVars, mergeVars, mainVars, pagedVars>>

\* for source in config["urls"]: result = fetch_wfs_features(...) is called
DownloadFetch ==
    /\ dpc = "layer"
    /\ d_si <= Len(WFS_CONFIG[d_layer].urls)
    /\ remote' \in DownloadRemotes
    /\ ppc' = "loop"
    /\ start_index' = 0
    /\ pf_features' = <<>>
    /\ total_features' = NoTotal
    /\ page_requests' = <<>>
    /\ pf_events' = <<"Capa">>
    /\ answers' = <<>>
    /\ result' = PagedCollection(<<>>, "")
    /\ dpc' = "fetching"
    /\ UNCHANGED <<d_entry, d_arg, d_keys, d_ki, d_layer, d_si, d_features, d_results,
                   d_ret, d_exit>>
    /\ UNCHANGED <<fetchVars, mergeVars, mainVars>>

\* all_features.extend(result.get("features", []))
DownloadCollect ==
    /\ dpc = "fetching"
    /\ ppc = "returned"
    /\ d_features' = d_features \o result.features
    /\ d_si' = d_si + 1
    /\ dpc' = "layer"
    /\ UNCHANGED <<d_entry, d_arg, d_keys, d_ki, d_layer, d_results, d_ret, d_exit>>
    /\ UNCHANGED <<fetchVars, mergeVars, mainVars, pagedVars>>

\* fetch_wfs_features raised: the error leaves download_layer and its caller
DownloadFetchRaised ==
    /\ dpc = "fetching"
    /\ ppc = "raised"
    /\ dpc' = "raised"
    /\ d_exit' = IF d_entry = "main" THEN 1 ELSE d_exit
    /\ UNCHANGED <<d_entry, d_arg, d_keys, d_ki, d_layer, d_si, d_features, d_results, d_ret>>
    /\ UNCHANGED <<fetchVars, mergeVars, mainVars, pagedVars>>

\* the file is written with open(output_file, 'w') and True returned
DownloadWrite(outcome) ==
    /\ dpc = "layer"
    /\ d_si > Len(WFS_CONFIG[d_layer].urls)
    /\ outcome = "ok"
    /\ files' = WriteFile(files, FileName(d_layer), LayerDocument(d_layer, d_features))
    /\ saves' = Append(saves, [file |-> FileName(d_layer),
                               doc |-> LayerDocument(d_layer, d_features),
                               outcome |-> outcome])
    /\ IF d_entry = "main"
       THEN /\ d_results' = DictSet(d_results, d_layer, "True")
            /\ d_ki' = d_ki + 1
            /\ dpc' = "main"
            /\ UNCHANGED d_ret
       ELSE /\ d_ret' = "True"
            /\ dpc' = "returned"
            /\ UNCHANGED <<d_ki, d_results>>
    /\ UNCHANGED <<d_entry, d_arg, d_keys, d_layer, d_si, d_features, d_exit>>
    /\ UNCHANGED <<pc, ci, stats, written, metadata, exitcode>>
    /\ UNCHANGED <<fetchVars, mergeVars, pagedVars>>

\* open raises before anything is written: the error leaves download_layer
DownloadWriteRaises(outcome) ==
    /\ dpc = "layer"
    /\ d_si > Len(WFS_CONFIG[d_layer].urls)
    /\ outcome = "OSError"
    /\ saves' = Append(saves, [file |-> FileName(d_layer),
                               doc |-> LayerDocument(d_layer, d_features),
                               outcome |-> outcome])
    /\ dpc' = "raised"
    /\ d_exit' = IF d_entry = "main" THEN 1 ELSE d_exit
    /\ UNCHANGED <<d_entry, d_arg, d_keys, d_ki, d_layer, d_si, d_features, d_results, d_ret>>
    /\ UNCHANGED <<pc, ci, stats, files, written, metadata, exitcode>>
    /\ UNCHANGED <<fetchVars, mergeVars, pagedVars>>

\* parser.parse_args() rejects a --layer outside choices: exit status 2
MainRejects(arg) ==
    /\ dpc = "idle"
    /\ arg \notin ArgChoices
    /\ d_entry' = "main"
    /\ d_arg' = arg
    /\ d_exit' = 2
    /\ dpc' = "exited"
    /\ UNCHANGED <<d_keys, d_ki, d_layer, d_si, d_features, d_results, d_ret>>
    /\ UNCHANGED <<fetchVars, mergeVars, mainVars, pagedVars>>

\* if args.list: print the layers and return 0
MainList(arg) ==
    /\ dpc = "idle"
    /\ arg \in ArgChoices
    /\ d_entry' = "main"
    /\ d_arg' = arg
    /\ d_exit' = 0
    /\ dpc' = "exited"
    /\ UNCHANGED <<d_keys, d_ki, d_layer, d_si, d_features, d_results, d_ret>>
    /\ UNCHANGED <<fetchVars, mergeVars, mainVars, pagedVars>>

\* download_all(args.output) for "all", download_layer(args.layer, ...) otherwise
MainRun(arg) ==
    /\ dpc = "idle"
    /\ arg \in ArgChoices
    /\ d_entry' = "main"
    /\ d_arg' = arg
    /\ d_keys' = IF arg = "all" THEN ConfigKeys ELSE <<arg>>
    /\ d_ki' = 1
    /\ d_results' = <<>>
    /\ dpc' = "main"
    /\ UNCHANGED <<d_layer, d_si, d_features, d_ret, d_exit>>
    /\ UNCHANGED <<fetchVars, mergeVars, mainVars, pagedVars>>

\* success = sum(1 for v in results.values() if v); total = len(results)
ReturnCode(rs) ==
    IF Cardinality({i \in 1..Len(rs) : rs[i].value = "True"}) = Len(rs) THEN 0 ELSE 1

\* return 0 if success == total else 1
MainReturn ==
    /\ dpc = "main"
    /\ d_ki > Len(d_keys)
    /\ d_exit' = ReturnCode(d_results)
    /\ dpc' = "exited"
    /\ UNCHANGED <<d_entry, d_arg, d_keys, d_ki, d_layer, d_si, d_features, d_results, d_ret>>
    /\ UNCHANGED <<fetchVars, mergeVars, mainVars, pagedVars>>

\* the rounds of fetch_wfs_features against a layer of DownloadRemotes
DownloadPagedStep ==
    \/ \E nm \in TotalMembers(remote), tf \in TotalMembers(remote) : PageShort(nm, tf)
    \/ PageEmpty
    \/ \E e \in {"Timeout"} : PageFails(e)
    \/ \E body \in {ArrayBody} : PageBodyRaises(body)

DownloadStep ==
    \/ \E key \in LayerArgs : DownloadLayerUnknown(key)
    \/ \E key \in LayerArgs : DownloadLayerBegin(key)
    \/ DownloadFetch
    \/ DownloadCollect
    \/ DownloadFetchRaised
    \/ \E outcome \in StorageOutcomes : DownloadWrite(outcome)
    \/ \E outcome \in StorageOutcomes : DownloadWriteRaises(outcome)
    \/ \E arg \in LayerArgs : MainRejects(arg)
    \/ \E arg \in LayerArgs : MainList(arg)
    \/ \E arg \in LayerArgs : MainRun(arg)
    \/ MainReturn

(***************************************************************************)
(* save_geojson called on its own                                          *)
(***************************************************************************)

\* most calls of save_geojson the model follows
MaxSaves == 3

\* the collections given to save_geojson
SaveDocuments ==
    {MergedCollection(<<>>),
     MergedCollection(<<Feature(1, PropsMap(Nombre))>>),
     MergedCollection(<<Feature(1, PropsMap(Nombre)), Feature(2, PropsAbsent)>>)}

\* the file names given to save_geojson
SaveNames == {FileName("health"), FileName("security")}

\* one call save_geojson(data, filename)
SaveCall(doc, filename, outcome) ==
    /\ pc = "idle"
    /\ Len(saves) < MaxSaves
    /\ SaveGeojson(doc, filename, outcome)
    /\ UNCHANGED <<pc, ci, stats, written, metadata, exitcode>>
    /\ UNCHANGED <<fetchVars, mergeVars, pagedVars, downloadVars>>

SaveStep ==
    \E doc \in SaveDocuments, filename \in SaveNames, outcome \in StorageOutcomes :
        SaveCall(doc, filename, outcome)

(***************************************************************************)
(* Specifications                                                          *)
(***************************************************************************)
FetchIdle ==
    /\ fpc = "idle"
    /\ layer = ""
    /\ attempt = 0
    /\ data = EmptyCollection
    /\ requests = 0
    /\ sleeps = 0
    /\ events = <<>>
    /\ outcomes = <<>>
    /\ run_requests = 0

MergeIdle ==
    /\ mpc = "idle"
    /\ layers = <<>>
    /\ li = 0
    /\ all_features = <<>>
    /\ merged = MergedCollection(<<>>)
    /\ fetched = <<>>

PagedIdle ==
    /\ remote = [total |-> 0, endless |-> FALSE]
    /\ ppc = "idle"
    /\ start_index = 0
    /\ pf_features = <<>>
    /\ total_features = NoTotal
    /\ page_requests = <<>>
    /\ pf_events = <<>>
    /\ answers = <<>>
    /\ result = PagedCollection(<<>>, "")

MainIdle ==
    /\ pc = "idle"
    /\ ci = 0
    /\ stats = <<>>
    /\ written = <<>>
    /\ exitcode = -1
    /\ saves = <<>>

DownloadIdle ==
    /\ dpc = "idle"
    /\ d_entry = "none"
    /\ d_arg = ""
    /\ d_keys = <<>>
    /\ d_ki = 0
    /\ d_layer = ""
    /\ d_si = 0
    /\ d_features = <<>>
    /\ d_results = <<>>
    /\ d_ret = "none"
    /\ d_exit = -1

NoFiles ==
    /\ files = [f \in {FileName(c) : c \in Categories} |-> <<>>]
    /\ metadata = <<>>

StaleFiles ==
    /\ files = [f \in {FileName(c) : c \in Categories} |-> <<StaleCollection>>]
    /\ metadata = <<StaleMetadata>>

\* longest descriptor list given to merge_features on its own
MaxLayers == 2

Labels == {"CAP", "Hospitales"}

DescriptorLists ==
    {[i \in 1..Len(ds) |-> Descriptor(G12, "layer_" \o ds[i], ds[i])] :
        ds \in SeqsUpTo(Labels, MaxLayers)}

\* one call fetch_wfs(url, layer) against any service
InitFetch ==
    /\ service = AnyService
    /\ fpc = "attempt"
    /\ layer = "g12_01_CentroSalud"
    /\ attempt = 1
    /\ data = EmptyCollection
    /\ requests = 0
    /\ sleeps = 0
    /\ events = <<>>
    /\ outcomes = <<>>
    /\ run_requests = 0
    /\ MergeIdle
    /\ MainIdle
    /\ NoFiles
    /\ PagedIdle
    /\ DownloadIdle

SpecFetch == InitFetch /\ [][FetchStep]_vars

\* one call merge_features(layers) for any list of descriptors
InitMerge ==
    /\ service = MergeService
    /\ FetchIdle
    /\ mpc = "loop"
    /\ layers \in DescriptorLists
    /\ li = 1
    /\ all_features = <<>>
    /\ merged = MergedCollection(<<>>)
    /\ fetched = <<>>
    /\ MainIdle
    /\ NoFiles
    /\ PagedIdle
    /\ DownloadIdle

NextMerge == FetchStep \/ MergeStep

SpecMerge == InitMerge /\ [][NextMerge]_vars

\* one call fetch_wfs_features(url, layer, description) against any layer
InitPaged ==
    /\ service = AnyService
    /\ FetchIdle
    /\ MergeIdle
    /\ MainIdle
    /\ NoFiles
    /\ DownloadIdle
    /\ remote \in RemoteLayers
    /\ ppc = "loop"
    /\ start_index = 0
    /\ pf_features = <<>>
    /\ total_features = NoTotal
    /\ page_requests = <<>>
    /\ pf_events = <<"Capa">>
    /\ answers = <<>>
    /\ result = PagedCollection(<<>>, "")

SpecPaged == InitPaged /\ [][PagedStep]_vars

\* one call of either fetcher: fetch_wfs(url, layer) or fetch_wfs_features(url, layer)
InitFetchers == InitFetch \/ InitPaged

NextFetchers == FetchStep \/ PagedStep

SpecFetchers == InitFetchers /\ [][NextFetchers]_vars

\* any calls of save_geojson, on a directory that is empty or holds the files
\* of an earlier run
InitSave ==
    /\ service = AnyService
    /\ FetchIdle
    /\ MergeIdle
    /\ MainIdle
    /\ NoFiles \/ StaleFiles
    /\ PagedIdle
    /\ DownloadIdle

SpecSave == InitSave /\ [][SaveStep]_vars

\* download_dera.py: one run of main(), or one call of download_layer
InitDownload ==
    /\ service = AnyService
    /\ FetchIdle
    /\ MergeIdle
    /\ MainIdle
    /\ NoFiles \/ StaleFiles
    /\ PagedIdle
    /\ DownloadIdle

NextDownload == DownloadStep \/ DownloadPagedStep

SpecDownload == InitDownload /\ [][NextDownload]_vars

\* a run of main(): stats = {} and the first iteration of the category loop
Init ==
    /\ service = RunService
    /\ FetchIdle
    /\ MergeIdle
    /\ pc = "loop"
    /\ ci = 1
    /\ stats = <<>>
    /\ written = <<>>
    /\ exitcode = -1
    /\ saves = <<>>
    /\ NoFiles \/ StaleFiles
    /\ PagedIdle
    /\ DownloadIdle

Next == FetchStep \/ MergeStep \/ MainStep

Spec == Init /\ [][Next]_vars

(***************************************************************************)
(* Properties                                                              *)
(***************************************************************************)
\* every request of the current fetch_wfs call failed
AllRequestsFailed ==
    /\ outcomes # <<>>
    /\ \A i \in 1..Len(outcomes) : IsFailure(outcomes[i])

\* C1: when every request to a layer fails, fetch_wfs makes exactly
\* MAX_RETRIES requests, never more and never fewer, and then returns the
\* empty feature collection instead of raising.
C1_RetryBound ==
    /\ AllRequestsFailed => requests <= MAX_RETRIES
    /\ (AllRequestsFailed /\ requests < MAX_RETRIES) => fpc = "attempt"
    /\ (AllRequestsFailed /\ requests = MAX_RETRIES) =>
            (fpc = "returned" /\ data = EmptyCollection)

\* fetch_wfs has returned after a timeout, an HTTP error and an invalid body
C1_Witness ==
    /\ fpc = "returned"
    /\ AllRequestsFailed
    /\ requests = MAX_RETRIES
    /\ {outcomes[i].type : i \in 1..Len(outcomes)} = {"Timeout", "HTTPError", "JSONDecodeError"}

\* C2: whatever the outcome of its requests, neither fetch_wfs nor
\* fetch_wfs_features raises to its caller.
C2_NeverRaises == fpc # "raised" /\ ppc # "raised"

\* ceil(a / b)
CeilDiv(a, b) == (a + b - 1) \div b

\* C3 as stated: for a layer of total records served in pages of at most
\* BATCH_SIZE, fetch_wfs_features issues at most ceil(total / BATCH_SIZE)
\* requests.
C3_CeilBound ==
    ~remote.endless => Len(page_requests) <= CeilDiv(remote.total, BATCH_SIZE)

\* C3 amended: for a layer of total records, fetch_wfs_features issues at
\* most floor(total / BATCH_SIZE) + 1 requests and has left its loop once it
\* has issued that many: one request more than ceil(total / BATCH_SIZE) when
\* total is a multiple of BATCH_SIZE (zero included), the last one answered
\* with an empty page.
C3_CallCountBound ==
    ~remote.endless =>
        /\ Len(page_requests) <= (remote.total \div BATCH_SIZE) + 1
        /\ Len(page_requests) = (remote.total \div BATCH_SIZE) + 1 => ppc # "loop"

\* a layer of exactly two full pages, fetched with three requests
C3_Witness ==
    /\ ppc = "returned"
    /\ ~remote.endless
    /\ remote.total = 2 * BATCH_SIZE
    /\ Len(page_requests) = 3
    /\ Len(result.features) = remote.total

\* C4: fetch_wfs_features enforces a maximum number of rounds, so that it has
\* left its loop after a bounded number of requests even when the service
\* answers every request with a full page.
C4_RoundCap == Len(page_requests) >= MaxRounds => ppc # "loop"

\* the requests issued for the page at the current offset
RequestsOfCurrentPage ==
    Cardinality({i \in 1..Len(page_requests) : page_requests[i].startIndex = start_index})

\* the last request ended in a failure that fetch_wfs_features handles
LastPageFailed == answers # <<>> /\ PagedCatches(answers[Len(answers)])

\* C5: a page whose request fails is requested again, up to MAX_RETRIES
\* attempts, before fetch_wfs_features abandons the layer.
C5_PageRetried ==
    (ppc = "returned" /\ LastPageFailed) => RequestsOfCurrentPage = MAX_RETRIES

\* the records the layer serves for pages 0 .. k-1, in order
RECURSIVE PagesBefore(_, _)
PagesBefore(r, k) ==
    IF k = 0 THEN <<>>
    ELSE PagesBefore(r, k - 1) \o ServedPage(r, (k - 1) * BATCH_SIZE, BATCH_SIZE)

\* C6: if the request for page k fails, fetch_wfs_features has issued no
\* request after it and returns exactly the records of pages 0 .. k-1, in
\* order; the empty collection for k = 0.
C6_PartialResult ==
    LastPageFailed =>
        LET k == Len(page_requests) - 1
        IN /\ ppc = "returned"
           /\ page_requests[k + 1].startIndex = k * BATCH_SIZE
           /\ \A i \in 1..k : answers[i] = "page"
           /\ result.features = PagesBefore(remote, k)
           /\ Len(result.features) = k * BATCH_SIZE

\* the request for page 2 timed out and the two pages before it are returned
C6_Witness ==
    /\ ppc = "returned"
    /\ Len(page_requests) = 3
    /\ answers[3] = "Timeout"
    /\ Len(result.features) = 2 * BATCH_SIZE
    /\ result.features[2 * BATCH_SIZE] = 2 * BATCH_SIZE

\* the features the first n fetches of this merge returned, each with the
\* label of the descriptor it was fetched for
RECURSIVE Origins(_)
Origins(n) ==
    IF n = 0 THEN <<>>
    ELSE Origins(n - 1) \o
            [j \in 1..Len(GetFeatures(fetched[n].data)) |->
                [feature |-> GetFeatures(fetched[n].data)[j], desc |-> layers[n].desc]]

\* g is f with _source set to d and nothing else changed
IsTagged(f, d, g) ==
    /\ g.id = f.id
    /\ g.properties.kind = "map"
    /\ DOMAIN g.properties.map = DOMAIN f.properties.map \cup {"_source"}
    /\ g.properties.map["_source"] = d
    /\ \A k \in DOMAIN f.properties.map \ {"_source"} :
            g.properties.map[k] = f.properties.map[k]

\* C7: every record of the collection merge_features returns carries _source
\* equal to the label of the descriptor whose fetch returned it, whatever
\* _source the service supplied, and its other attributes are unchanged.
C7_Provenance ==
    mpc = "returned" =>
        /\ Len(merged.features) = Len(Origins(Len(fetched)))
        /\ \A n \in 1..Len(merged.features) :
              IsTagged(Origins(Len(fetched))[n].feature,
                       Origins(Len(fetched))[n].desc, merged.features[n])

\* two layers merged, a record that came with its own _source among them
C7_Witness ==
    /\ mpc = "returned"
    /\ Len(layers) = 2
    /\ layers[1].desc # layers[2].desc
    /\ \E n \in 1..Len(merged.features) :
          /\ Origins(Len(fetched))[n].feature.properties = PropsMap(NombreAndSource)
          /\ merged.features[n].properties.map["_source"] = layers[2].desc
          /\ merged.features[n].properties.map["nombre"] = "Test"
    /\ \E n \in 1..Len(merged.features) :
          /\ Origins(Len(fetched))[n].feature.properties = PropsAbsent
          /\ merged.features[n].properties.map["_source"] = layers[1].desc

\* C8: merge_features completes without error on every fetched record that
\* has no attribute mapping, the properties member absent or null: once
\* fetch_wfs has returned, the tagging does not raise.
C8_MissingMapping == ~(mpc = "raised" /\ fpc = "returned")

\* the answer that ended the n-th fetch of this merge
LastAnswer(n) == fetched[n].outcomes[Len(fetched[n].outcomes)]

\* the n-th fetch failed all its retries
FailedAllRetries(n) ==
    /\ Len(fetched[n].outcomes) = MAX_RETRIES
    /\ \A i \in 1..MAX_RETRIES : IsFailure(fetched[n].outcomes[i])

\* the ids of the records the service delivered to the first n fetches, a
\* fetch that failed all its retries delivering none
RECURSIVE DeliveredIds(_)
DeliveredIds(n) ==
    IF n = 0 THEN <<>>
    ELSE DeliveredIds(n - 1) \o
            (IF FailedAllRetries(n) THEN <<>>
             ELSE [j \in 1..Len(GetFeatures(LastAnswer(n))) |->
                      GetFeatures(LastAnswer(n))[j].id])

\* C9: when some descriptors fail all their retries, merge_features still
\* fetches every other descriptor, and what it has accumulated, and in the
\* end returns, is exactly the records of the descriptors that succeeded; a
\* layer's failure never raises an error in fetch_wfs or in the merge.
C9_Isolation ==
    /\ mpc \in {"loop", "returned"} =>
          /\ li = Len(fetched) + 1
          /\ [n \in 1..Len(all_features) |-> all_features[n].id] = DeliveredIds(Len(fetched))
    /\ mpc = "returned" =>
          /\ Len(fetched) = Len(layers)
          /\ [n \in 1..Len(merged.features) |-> merged.features[n].id]
                = DeliveredIds(Len(layers))
    /\ AllRequestsFailed => fpc # "raised"
    /\ (AllRequestsFailed /\ fpc = "returned") => mpc # "raised"

\* the first descriptor failed all its retries, the second delivered two
\* records, and the merge returns those two
C9_Witness ==
    /\ mpc = "returned"
    /\ Len(layers) = 2
    /\ FailedAllRetries(1)
    /\ ~FailedAllRetries(2)
    /\ Len(GetFeatures(LastAnswer(2))) = 2
    /\ Len(merged.features) = 2

\* the number of records in the files of the categories cs
RECURSIVE PersistedCount(_)
PersistedCount(cs) ==
    IF cs = <<>> THEN 0
    ELSE Len(files[FileName(cs[1])][1].features) + PersistedCount(Tail(cs))

\* C10: in a completed run the totalFeatures of the summary file equals the
\* sum, over the categories processed, of the number of records in the file
\* save_geojson wrote for the category.
C10_SummaryTotal ==
    pc \in {"exit", "exited"} =>
        /\ metadata # <<>>
        /\ metadata[1].totalFeatures = PersistedCount(written)

\* a completed run that wrote three records in all and none for health
C10_Witness ==
    /\ pc = "exited"
    /\ Len(written) = Len(WFS_LAYERS)
    /\ metadata[1].totalFeatures = 3
    /\ files[FileName("health")][1].features = <<>>
    /\ Len(files[FileName("security")][1].features) = 2

\* the record counts of the category files, one entry per category of
\* WFS_LAYERS, in its order
CountsOnDisk ==
    [i \in 1..Len(WFS_LAYERS) |->
        [key |-> WFS_LAYERS[i].category,
         value |-> Len(files[FileName(WFS_LAYERS[i].category)][1].features)]]

\* C11: the layers mapping of the summary file has exactly one entry per
\* category processed in the run, in processing order, categories without
\* records included, and the value of each entry is the record count of the
\* category's file.
C11_SummaryComplete ==
    pc \in {"exit", "exited"} =>
        /\ metadata # <<>>
        /\ Len(metadata[1].layers) = Len(written)
        /\ \A i \in 1..Len(written) : metadata[1].layers[i].key = written[i]
        /\ metadata[1].layers = CountsOnDisk

\* a completed run in which health and energy have no records and security
\* has two
C11_Witness ==
    /\ pc = "exited"
    /\ metadata[1].layers[1] = [key |-> "health", value |-> 0]
    /\ metadata[1].layers[2] = [key |-> "security", value |-> 2]
    /\ metadata[1].layers[Len(WFS_LAYERS)].value = 0

\* C12: a run exits with code 0 only when every processed category yielded
\* at least one record, and with a non-zero code whenever some processed
\* category yielded none.
C12_ExitCode ==
    pc = "exited" =>
        (exitcode = 0 <=> \A i \in 1..Len(stats) : stats[i].value > 0)

\* the calls of saves that wrote the file f
WritesOf(f) == {i \in 1..Len(saves) : saves[i].file = f /\ saves[i].outcome = "ok"}

\* the last of them
LastWriteOf(f) == CHOOSE i \in WritesOf(f) : \A j \in WritesOf(f) : j <= i

\* every file holds what the last write of it was given, and a file never
\* written holds what it held at the start
OverwriteState ==
    \A f \in DOMAIN files :
        IF WritesOf(f) = {}
        THEN files[f] \in {<<>>, <<StaleCollection>>}
        ELSE files[f] = <<saves[LastWriteOf(f)].doc>>

\* a call changes no file but the one it names
OverwriteStep ==
    \A f \in DOMAIN files :
        files'[f] # files[f] =>
            /\ Len(saves') = Len(saves) + 1
            /\ saves'[Len(saves')].file = f
            /\ files'[f] = <<saves'[Len(saves')].doc>>

NothingDone ==
    /\ ppc = "idle"
    /\ page_requests = <<>>
    /\ saves = <<>>
    /\ \A f \in DOMAIN files : files[f] \in {<<>>, <<StaleCollection>>}

\* C14: download_layer called with a name that is not configured issues no
\* request, writes no file and returns False at once, and a run of main that
\* asked for that name exits with a non-zero status.
C14_UnknownCategory ==
    /\ (d_entry = "download_layer" /\ d_layer \notin {ConfigKeys[i] : i \in 1..Len(ConfigKeys)}) =>
          /\ dpc = "returned"
          /\ d_ret = "False"
          /\ NothingDone
    /\ (d_entry = "main" /\ d_arg \notin {ConfigKeys[i] : i \in 1..Len(ConfigKeys)} \cup {"all"}) =>
          /\ dpc = "exited"
          /\ d_exit \notin {0, -1}
          /\ d_results = <<>>
          /\ NothingDone
    /\ d_ret = "False" => d_layer \notin {ConfigKeys[i] : i \in 1..Len(ConfigKeys)}

\* download_layer("heritage") has returned False on a directory that holds
\* the files of an earlier run
C14_Witness ==
    /\ dpc = "returned"
    /\ d_entry = "download_layer"
    /\ d_layer = "heritage"
    /\ d_ret = "False"
    /\ saves = <<>>
    /\ files[FileName("health")] = <<StaleCollection>>

\* the number of requests answered with a page of records
PagesReceived == Cardinality({i \in 1..Len(answers) : answers[i] = "page"})

\* the i-th request was answered with a page of BATCH_SIZE records
FullPageAt(i) ==
    /\ answers[i] = "page"
    /\ ServedCount(remote, (i - 1) * BATCH_SIZE, BATCH_SIZE) = BATCH_SIZE

\* C15: the i-th request of fetch_wfs_features (i = 0, 1, ...) asks for
\* BATCH_SIZE records from offset i * BATCH_SIZE; the loop ends at the first
\* page with no records or fewer than BATCH_SIZE and goes on after a full
\* page; the collection returned is the concatenation of the pages received,
\* in request order, a final short page included.
C15_CursorSteps ==
    /\ \A i \in 1..Len(page_requests) :
          page_requests[i] = WfsRequest((i - 1) * BATCH_SIZE, BATCH_SIZE)
    /\ \A i \in 1..(Len(answers) - 1) : FullPageAt(i)
    /\ (answers # <<>> /\ FullPageAt(Len(answers))) =>
          (ppc = "loop" /\ start_index = Len(answers) * BATCH_SIZE)
    /\ (answers # <<>> /\ answers[Len(answers)] = "page" /\ ~FullPageAt(Len(answers))) =>
          ppc = "returned"
    /\ ppc = "loop" => pf_features = PagesBefore(remote, PagesReceived)
    /\ ppc = "returned" => result.features = PagesBefore(remote, PagesReceived)

\* two full pages and a last page of one record, returned after three requests
C15_Witness ==
    /\ ppc = "returned"
    /\ Len(page_requests) = 3
    /\ page_requests[3].startIndex = 2 * BATCH_SIZE
    /\ answers[3] = "page"
    /\ Len(result.features) = 2 * BATCH_SIZE + 1
    /\ result.features[2 * BATCH_SIZE + 1] = 2 * BATCH_SIZE + 1

\* the last request of fetch_wfs was answered with a body it accepts
LastRequestSucceeded ==
    /\ outcomes # <<>>
    /\ ~IsFailure(outcomes[Len(outcomes)])
    /\ CountError(outcomes[Len(outcomes)]) = "none"

\* C16: whatever failures come first, when attempt k <= MAX_RETRIES is the
\* first to succeed fetch_wfs has made exactly k requests and returns the
\* data of that response unchanged; a response without records is a success
\* and is not retried.
C16_FirstSuccess ==
    LastRequestSucceeded =>
        /\ fpc = "returned"
        /\ requests = Len(outcomes)
        /\ requests <= MAX_RETRIES
        /\ attempt = requests
        /\ \A i \in 1..(Len(outcomes) - 1) : IsFailure(outcomes[i])
        /\ data = outcomes[Len(outcomes)]

\* a network error, an invalid body, then a response without records
C16_Witness ==
    /\ fpc = "returned"
    /\ requests = MAX_RETRIES
    /\ outcomes[1].type = "ConnectionError"
    /\ outcomes[2].type = "JSONDecodeError"
    /\ outcomes[3] = ObjectWithoutFeatures
    /\ data = ObjectWithoutFeatures

\* C17: fetch_wfs pauses after a failed attempt only when another attempt
\* follows: n - 1 pauses for a fetch that succeeds at attempt n,
\* MAX_RETRIES - 1 for a fetch that is abandoned, none after the last failed
\* attempt or after a success.
C17_PausePlacement ==
    /\ fpc = "attempt" => sleeps = requests
    /\ fpc # "attempt" => sleeps = requests - 1
    /\ (fpc = "returned" /\ AllRequestsFailed) => sleeps = MAX_RETRIES - 1
    /\ fpc # "attempt" => events[Len(events)] # "INFO:Reintentando"
    /\ (fpc = "returned" /\ AllRequestsFailed) =>
          events[Len(events) - 2] # "INFO:Reintentando"

\* two pauses before a success at the third attempt
C17_Witness ==
    /\ fpc = "returned"
    /\ LastRequestSucceeded
    /\ requests = MAX_RETRIES
    /\ sleeps = MAX_RETRIES - 1
    /\ Len(GetFeatures(data)) = 2

\* the ids of the records the first n fetches of this merge returned
RECURSIVE FetchedIds(_)
FetchedIds(n) ==
    IF n = 0 THEN <<>>
    ELSE FetchedIds(n - 1) \o
            [j \in 1..Len(GetFeatures(fetched[n].data)) |->
                GetFeatures(fetched[n].data)[j].id]

\* C18: merge_features calls the fetcher once per descriptor, in list order,
\* the fetch of a descriptor starting only after that of the previous one has
\* returned; its output is the concatenation of the results of the
\* descriptors in list order, each in the order the fetch returned it.
C18_MergeOrder ==
    /\ Len(fetched) <= Len(layers)
    /\ \A n \in 1..Len(fetched) : fetched[n].layer = layers[n].layer
    /\ mpc = "fetching" =>
          /\ li \in 1..Len(layers)
          /\ Len(fetched) = li - 1
          /\ layer = layers[li].layer
    /\ mpc \in {"loop", "returned"} =>
          /\ Len(fetched) = li - 1
          /\ fpc # "attempt"
          /\ [n \in 1..Len(all_features) |-> all_features[n].id] = FetchedIds(Len(fetched))
    /\ mpc = "returned" =>
          /\ Len(fetched) = Len(layers)
          /\ [n \in 1..Len(merged.features) |-> merged.features[n].id]
                = FetchedIds(Len(layers))

\* two different layers, the first of two records and the second of one,
\* merged into three records in that order
C18_Witness ==
    /\ mpc = "returned"
    /\ Len(layers) = 2
    /\ layers[1].layer # layers[2].layer
    /\ FetchedIds(1) = <<2, 3>>
    /\ FetchedIds(2) = <<2, 3, 1>>
    /\ [n \in 1..Len(merged.features) |-> merged.features[n].id] = <<2, 3, 1>>

\* the categories of the first n entries of WFS_LAYERS
FirstCategories(n) == [i \in 1..n |-> WFS_LAYERS[i].category]

\* what holds of every state of a run
RunOrderState ==
    /\ pc \in {"loop", "merging"} => written = FirstCategories(ci - 1)
    /\ pc = "merging" => layers = WFS_LAYERS[ci].layers
    /\ fpc = "attempt" => (pc = "merging" /\ mpc = "fetching")
    /\ pc \in {"loop", "merging", "raised"} => metadata \in {<<>>, <<StaleMetadata>>}
    /\ pc \in {"exit", "exited"} => written = FirstCategories(Len(WFS_LAYERS))

\* what holds of every step of a run
RunOrderStep ==
    /\ written' # written =>
          /\ mpc = "returned"
          /\ Len(fetched) = Len(WFS_LAYERS[ci].layers)
          /\ written' = Append(written, WFS_LAYERS[ci].category)
          /\ fpc' # "attempt"
    /\ metadata' # metadata =>
          /\ written = FirstCategories(Len(WFS_LAYERS))
          /\ pc = "loop"
          /\ pc' = "exit"
    /\ pc' = "loop" => ci' = Len(written') + 1

\* C19: in a run over all categories the file of a category is written after
\* all the fetches of its layers have finished and before any fetch of the
\* next category starts; the summary file is written once, after the last
\* category file, and not at all when the write of a category raised.
C19_RunOrdering == []RunOrderState /\ [][RunOrderStep]_vars

\* the write of the third category raised: two files written, no summary
C19_Witness ==
    /\ pc = "raised"
    /\ mpc = "returned"
    /\ Len(written) = 2
    /\ ci = 3
    /\ metadata = <<>>

\* the warnings of fetch_wfs
Warnings == {"WARN:Timeout", "WARN:HTTP Error", "WARN:Error de red", "WARN:JSON"}

\* the number of events of the kinds ks in the log es
CountEvents(es, ks) == Cardinality({p \in 1..Len(es) : es[p] \in ks})

\* the position in events of the start of the i-th attempt
AttemptPos(i) ==
    CHOOSE p \in 1..Len(events) :
        /\ events[p] = "INFO:Descargando"
        /\ CountEvents(SubSeq(events, 1, p), {"INFO:Descargando"}) = i

\* C20: every failed attempt of fetch_wfs emits one warning before the next
\* attempt or the abandonment, and abandoning a layer after MAX_RETRIES
\* failures emits exactly one error event; a failed page request of
\* fetch_wfs_features emits an error event before the function returns; no
\* failure path returns without an event.
C20_FailuresReported ==
    /\ CountEvents(events, Warnings)
          = Cardinality({i \in 1..Len(outcomes) : IsFailure(outcomes[i])})
    /\ \A i \in 1..Len(outcomes) :
          IsFailure(outcomes[i]) =>
              events[AttemptPos(i) + 1] = FetchWfsHandler(outcomes[i].type)
    /\ CountEvents(events, {"ERROR:Fallo descarga"})
          = IF fpc = "returned" /\ AllRequestsFailed THEN 1 ELSE 0
    /\ (fpc = "returned" /\ AllRequestsFailed) =>
          events[Len(events)] = "ERROR:Fallo descarga"
    /\ CountEvents(pf_events, {"Error"})
          = Cardinality({i \in 1..Len(answers) : PagedCatches(answers[i])})
    /\ (ppc = "returned" /\ LastPageFailed) => pf_events[Len(pf_events)] = "Error"

\* fetch_wfs abandoned a layer after an HTTP error, a timeout and a network
\* error: three warnings and one error event
C20_Witness ==
    /\ fpc = "returned"
    /\ AllRequestsFailed
    /\ [i \in 1..Len(outcomes) |-> outcomes[i].type] = <<"HTTPError", "Timeout", "ConnectionError">>
    /\ CountEvents(events, Warnings) = MAX_RETRIES
    /\ events[Len(events)] = "ERROR:Fallo descarga"

\* where fetch_wfs_features stands after the answers as of a layer r, told
\* from the pages alone
ExpectedPc(r, as) ==
    IF as = <<>> THEN "loop"
    ELSE IF as[Len(as)] = "page"
         THEN IF ServedCount(r, (Len(as) - 1) * BATCH_SIZE, BATCH_SIZE) = BATCH_SIZE
              THEN "loop" ELSE "returned"
         ELSE IF as[Len(as)] = "array" THEN "raised" ELSE "returned"

\* the records it has accumulated, told from the pages alone
ExpectedRecords(r, as) ==
    PagesBefore(r, Cardinality({i \in 1..Len(as) : as[i] = "page"}))

\* C21: two executions of fetch_wfs_features that receive the same pages
\* but different total-match values (present, absent or wrong) issue the
\* same requests and return the same records and the same record count: the
\* requests, the position in the loop, the records accumulated and the
\* document returned are functions of the layer and of the answers alone.
C21_DiagnosticsInert ==
    /\ page_requests = [i \in 1..Len(answers) |-> WfsRequest((i - 1) * BATCH_SIZE, BATCH_SIZE)]
    /\ ppc = ExpectedPc(remote, answers)
    /\ pf_features = ExpectedRecords(remote, answers)
    /\ ppc = "loop" => start_index = Len(answers) * BATCH_SIZE
    /\ ppc = "returned" =>
          result = PagedCollection(ExpectedRecords(remote, answers), PagedLayer)

\* a layer of two full pages and one record fetched whole although the
\* first page announced a wrong total
C21_Witness ==
    /\ ppc = "returned"
    /\ remote.total = 2 * BATCH_SIZE + 1
    /\ total_features.known
    /\ total_features.value = remote.total + 7
    /\ Len(page_requests) = 3
    /\ result.numberMatched = remote.total

\* the number of records the first n fetches of this merge returned
RECURSIVE SumFetched(_)
SumFetched(n) ==
    IF n = 0 THEN 0 ELSE SumFetched(n - 1) + Len(GetFeatures(fetched[n].data))

\* the category save_geojson has just written the file of
LastWritten == written[Len(written)]

\* C22: the collection merge_features returns has as many records as the
\* fetches returned in all, the count save_geojson returns for a category is
\* the number of records of the file it wrote, and the file holds the
\* records of the fetches, none dropped and none twice.
C22_RecordConservation ==
    /\ mpc = "returned" =>
          /\ Len(merged.features) = SumFetched(Len(fetched))
          /\ [n \in 1..Len(merged.features) |-> merged.features[n].id] = FetchedIds(Len(fetched))
    /\ \A i \in 1..Len(stats) :
          stats[i].value = Len(files[FileName(stats[i].key)][1].features)
    /\ (pc = "loop" /\ mpc = "returned") =>
          /\ files[FileName(LastWritten)] = <<merged>>
          /\ stats[Len(stats)] = [key |-> LastWritten, value |-> SumFetched(Len(fetched))]

\* security.geojson just written with one record from each of its three layers
C22_Witness ==
    /\ pc = "loop"
    /\ mpc = "returned"
    /\ LastWritten = "security"
    /\ Len(fetched) = 3
    /\ \A n \in 1..3 : Len(GetFeatures(fetched[n].data)) = 1
    /\ Len(files[FileName("security")][1].features) = 3
    /\ stats[2].value = 3

\* the number of layers configured in WFS_LAYERS
RECURSIVE LayerCount(_)
LayerCount(n) ==
    IF n = 0 THEN 0 ELSE LayerCount(n - 1) + Len(WFS_LAYERS[n].layers)

\* the run ended in an error raised by a write to storage
StorageRaised ==
    \/ saves # <<>> /\ saves[Len(saves)].outcome = "OSError"
    \/ ci > Len(WFS_LAYERS)

\* the requests of a run never exceed MAX_RETRIES per configured layer
RequestBound == run_requests <= MAX_RETRIES * LayerCount(Len(WFS_LAYERS))

\* C23: when every request returns or times out and the writes to storage
\* succeed, a run of main issues at most MAX_RETRIES requests per configured
\* layer, writes every category file and the summary and exits, whatever the
\* service answers: the run never stops in an error that storage did not
\* raise.
C23_WholeRun ==
    /\ RequestBound
    /\ pc = "raised" => StorageRaised

====
